---- MODULE Spec2Model ----
(***************************************************************************)
(* Snapshot generation, usage quota and retention sweeper of gystify-be.   *)
(* Time is counted in hours.  The relational store is modelled as sets of  *)
(* rows with the foreign keys and unique constraints of the initial        *)
(* migration; every awaited repository call is one atomic step.            *)
(***************************************************************************)
EXTENDS Integers, Sequences, FiniteSets, TLC

\* ---------------------------------------------------------------- bounds
MaxStarts == 2
MaxInteractions == 1
MaxEmailCount == 2

\* ------------------------------------------------------- program constants
RETENTION_HOURS == 72
TEST_WINDOW_HOURS == 1
HOURS_PER_DAY == 24
UNLIMITED == 999
TRIAL_HOURS == 168
MONTH_HOURS == 720
LARGE_EMAIL_SIZE == 50000
YEAR_HOURS == 8760

None == -1

Users == {"u1"}
Runs == {1, 2}
MsgIds == {"m1", "m2"}
Rank(m) == IF m = "m1" THEN 1 ELSE 2
\* the instants at which the clock is observed
Instants == {0, 10, 73}
Tiers == {"free", "trial", "starter", "pro"}

\* labels of the Gmail API that the scoring reads
LabelIds == {"IMPORTANT", "STARRED", "CATEGORY_PROMOTIONS", "CATEGORY_UPDATES",
             "CATEGORY_PERSONAL"}

\* sender addresses, and the domain after the @ of each
SenderAddresses == {"a@x.com", "a@gmail.com"}
DomainOf(e) == IF e = "a@gmail.com" THEN "gmail.com" ELSE "x.com"

\* size estimates on both sides of the large-email threshold
SizeEstimates == {LARGE_EMAIL_SIZE, LARGE_EMAIL_SIZE + 1}

\* ------------------------------------------------------------ plan table
MAX_EMAILS_FOR_SUMMARY == 2

SUBSCRIPTION_PLANS ==
  [t \in Tiers |->
     CASE t = "free"    -> [maxSnapshotsPerDay |-> 0, maxEmailsPerSnapshot |-> 0,
                            totalSnapshotsAllowed |-> 0]
       [] t = "trial"   -> [maxSnapshotsPerDay |-> 1, maxEmailsPerSnapshot |-> 1,
                            totalSnapshotsAllowed |-> 2]
       [] t = "starter" -> [maxSnapshotsPerDay |-> 2, maxEmailsPerSnapshot |-> 2,
                            totalSnapshotsAllowed |-> 0]
       [] t = "pro"     -> [maxSnapshotsPerDay |-> UNLIMITED, maxEmailsPerSnapshot |-> 3,
                            totalSnapshotsAllowed |-> 0]]

getPlanLimits(tier) == SUBSCRIPTION_PLANS[tier]

\* ----------------------------------------------------------------- state
VARIABLES
  now,          \* wall clock, hours
  users,        \* users table: userId -> row
  snapshots,    \* snapshots table
  items,        \* snapshot_items table
  senders,      \* senders table
  interactions, \* user_interactions table
  nextId,       \* next snapshot id
  starts,       \* createSnapshot invocations so far
  run,          \* the createSnapshot invocations: position and locals
  sweep,        \* the cleanupExpiredSnapshots run: position and locals
  mail,         \* the messages of the mailbox provider: id -> message
  plan,         \* the start-trial or upgrade request: position and locals
  deactivation  \* the deleteCurrentUser invocation: position and locals

dbVars == <<users, snapshots, items, senders, interactions>>
acctVars == <<plan, deactivation>>
vars == <<now, users, snapshots, items, senders, interactions,
          nextId, starts, run, sweep, mail, plan, deactivation>>

\* ------------------------------------------------------------- helpers
toDateString(t) == IF t = None THEN None ELSE t \div HOURS_PER_DAY

Min(a, b) == IF a < b THEN a ELSE b

RECURSIVE SelectSeq2(_, _)
\* Array.prototype.filter on ids not contained in a set
SelectSeq2(s, drop) ==
  IF s = <<>> THEN <<>>
  ELSE IF Head(s) \in drop THEN SelectSeq2(Tail(s), drop)
       ELSE <<Head(s)>> \o SelectSeq2(Tail(s), drop)

Prefix(s, n) == SubSeq(s, 1, Min(n, Len(s)))

NoUser == [isActive |-> TRUE, tier |-> "free",
           trialStartedAt |-> None, trialExpiresAt |-> None,
           subscriptionStartedAt |-> None, subscriptionExpiresAt |-> None,
           snapshotsCreatedToday |-> 0, totalSnapshotsCreated |-> 0,
           emailsSummarizedToday |-> 0, totalEmailsSummarized |-> 0,
           lastSnapshotDate |-> None, lastUsageResetDate |-> None]

NoSnap == [id |-> 0, userId |-> "u1", createdAt |-> 0, retentionExpiresAt |-> 0,
           totalItems |-> 0]
NoSender == [id |-> <<>>, userId |-> "u1", emailAddress |-> "", totalEmails |-> 0]
NoResult == [success |-> FALSE, kind |-> "none", message |-> "none", cause |-> "none"]

\* what an invocation observed and wrote, kept for the properties
NoPrev == [unread |-> <<>>, skipped |-> 0]
NoHist == [quotaPassed |-> FALSE, unread |-> <<>>, snapshotId |-> 0, wrote |-> 0,
           prev |-> NoPrev, calls |-> 0, fetchFailed |-> FALSE, requested |-> 0]

\* the UsageLimitsCheck of a checkUsageLimits that has not run
NoLimits == [canCreateSnapshot |-> FALSE, hasActiveAccess |-> FALSE,
             isTrialExpired |-> FALSE, isSubscriptionExpired |-> FALSE]

IdleRun == [pc |-> "idle", user |-> "u1", luser |-> NoUser, lnow |-> 0,
            limits |-> NoLimits,
            unreadEmails |-> <<>>, newEmails |-> <<>>, snapshot |-> NoSnap,
            i |-> 0, sender |-> NoSender, snapshotItems |-> 0,
            result |-> NoResult, hist |-> NoHist]

IdleSweep == [pc |-> "idle", oneHourAgo |-> 0, snapshotIds |-> {}, startedAt |-> 0,
              result |-> "none"]

\* no start-trial or upgrade request has been received: op is the endpoint,
\* user the entity the handler holds, changed the columns its save updates
IdlePlan == [pc |-> "idle", op |-> "none", userId |-> "u1", user |-> NoUser,
             newTier |-> "free", billingCycle |-> "monthly", changed |-> {}]

IdleDeactivation == [pc |-> "idle", userId |-> "u1"]

\* ------------------------------------------------------ mailbox messages
\* header hints of a message: Importance: high or Priority: urgent, and an
\* X-Priority that begins with 1 or 2
NoHeaders == [importanceHigh |-> FALSE, xPriorityHigh |-> FALSE]
HeaderHints == [importanceHigh : BOOLEAN, xPriorityHigh : BOOLEAN]

\* a message as the Gmail API holds it: labels, header hints, sender, size,
\* and whether the API supplies a snippet of its own; every message has a
\* body
PlainMail == [labelIds |-> {}, headers |-> NoHeaders, senderEmail |-> "a@x.com",
              sizeEstimate |-> LARGE_EMAIL_SIZE, snippet |-> TRUE]

MailData == [labelIds : SUBSET LabelIds, headers : HeaderHints,
             senderEmail : SenderAddresses, sizeEstimate : SizeEstimates,
             snippet : BOOLEAN]

PlainMailbox == [m \in MsgIds |-> PlainMail]

\* Sender address carried by each message of the mailbox.
SenderEmailOf(m) == mail[m].senderEmail

TrustedDomains == {"gmail.com", "outlook.com", "hotmail.com", "yahoo.com",
                   "icloud.com", "protonmail.com", "airbnb.com"}

isTrustedDomain_AnyDomain(senderEmail) == TRUE

isTrustedDomain(senderEmail) == DomainOf(senderEmail) \in TrustedDomains

Max(a, b) == IF a > b THEN a ELSE b

\* variant: the two bonuses are added without the clamp to 1.0
calculateEnhancedImportance_UnclampedBonus(labelIds, headers, senderEmail, sizeEstimate) ==
  LET base == 50
      s1 == IF "IMPORTANT" \in labelIds THEN Max(base, 100) ELSE base
      s2 == IF "STARRED" \in labelIds THEN Max(s1, 85) ELSE s1
      s3 == IF "CATEGORY_PROMOTIONS" \in labelIds THEN Min(s2, 30)
            ELSE IF "CATEGORY_UPDATES" \in labelIds THEN Min(s2, 40)
            ELSE IF "CATEGORY_PERSONAL" \in labelIds THEN Max(s2, 70)
            ELSE s2
      s4 == IF headers.importanceHigh THEN Max(s3, 80) ELSE s3
      s5 == IF headers.xPriorityHigh THEN Max(s4, 90) ELSE s4
      s6 == IF isTrustedDomain(senderEmail) THEN s5 + 10 ELSE s5
      s7 == IF sizeEstimate > LARGE_EMAIL_SIZE THEN s6 + 5 ELSE s6
  IN s7

\* variant: the category clamp is applied before the label rules
calculateEnhancedImportance_CategoryFirst(labelIds, headers, senderEmail, sizeEstimate) ==
  LET base == 50
      s1 == IF "CATEGORY_PROMOTIONS" \in labelIds THEN Min(base, 30)
            ELSE IF "CATEGORY_UPDATES" \in labelIds THEN Min(base, 40)
            ELSE IF "CATEGORY_PERSONAL" \in labelIds THEN Max(base, 70)
            ELSE base
      s2 == IF "IMPORTANT" \in labelIds THEN Max(s1, 100) ELSE s1
      s3 == IF "STARRED" \in labelIds THEN Max(s2, 85) ELSE s2
      s4 == IF headers.importanceHigh THEN Max(s3, 80) ELSE s3
      s5 == IF headers.xPriorityHigh THEN Max(s4, 90) ELSE s4
      s6 == IF isTrustedDomain(senderEmail) THEN Min(s5 + 10, 100) ELSE s5
      s7 == IF sizeEstimate > LARGE_EMAIL_SIZE THEN Min(s6 + 5, 100) ELSE s6
  IN s7

\* calculateEnhancedImportance: the score in hundredths, as
\* Math.round(score * 100) / 100 returns it
calculateEnhancedImportance(labelIds, headers, senderEmail, sizeEstimate) ==
  LET base == 50
      s1 == IF "IMPORTANT" \in labelIds THEN Max(base, 100) ELSE base
      s2 == IF "STARRED" \in labelIds THEN Max(s1, 85) ELSE s1
      s3 == IF "CATEGORY_PROMOTIONS" \in labelIds THEN Min(s2, 30)
            ELSE IF "CATEGORY_UPDATES" \in labelIds THEN Min(s2, 40)
            ELSE IF "CATEGORY_PERSONAL" \in labelIds THEN Max(s2, 70)
            ELSE s2
      s4 == IF headers.importanceHigh THEN Max(s3, 80) ELSE s3
      s5 == IF headers.xPriorityHigh THEN Max(s4, 90) ELSE s4
      s6 == IF isTrustedDomain(senderEmail) THEN Min(s5 + 10, 100) ELSE s5
      s7 == IF sizeEstimate > LARGE_EMAIL_SIZE THEN Min(s6 + 5, 100) ELSE s6
  IN s7

scoreToPriorityLabel(score) ==
  IF score >= 85 THEN "urgent"
  ELSE IF score >= 70 THEN "high"
  ELSE IF score >= 40 THEN "medium"
  ELSE "low"

\* the texts of a message, told apart by what they are
BodyOf(m) == <<"body", m>>
ProviderSnippetOf(m) == <<"snippet", m>>
SummaryOf(m) == <<"summary", m>>

\* the GmailMessageDto that fetchGmailMessages builds for message m
GmailMessageDto(m) ==
  [messageId |-> m,
   labelIds |-> mail[m].labelIds,
   senderEmail |-> mail[m].senderEmail,
   sizeEstimate |-> mail[m].sizeEstimate,
   body |-> BodyOf(m),
   snippet |-> IF mail[m].snippet THEN ProviderSnippetOf(m) ELSE BodyOf(m),
   priorityScore |-> calculateEnhancedImportance(mail[m].labelIds, mail[m].headers,
                                                 mail[m].senderEmail,
                                                 mail[m].sizeEstimate)]

\* the SnapshotItem that processEmailsToItems creates for email
snapshotItem(snapshotId, position, senderId, email) ==
  LET score == calculateEnhancedImportance(email.labelIds, NoHeaders,
                                           email.senderEmail, email.sizeEstimate) IN
  [id |-> <<snapshotId, position>>, snapshotId |-> snapshotId,
   senderId |-> senderId, messageId |-> email.messageId,
   summary |-> SummaryOf(email.messageId), snippet |-> email.snippet,
   priorityScore |-> score, priorityLabel |-> scoreToPriorityLabel(score)]

\* --------------------------------------------------- access evaluation
\* User.isTrialActive, evaluated at time t
isTrialActive(u, t) ==
  u.tier = "trial" /\ u.trialExpiresAt # None /\ t < u.trialExpiresAt

\* User.isSubscriptionActive, evaluated at time t
isSubscriptionActive(u, t) ==
  u.tier # "trial" /\ (u.subscriptionExpiresAt = None \/ t < u.subscriptionExpiresAt)

userHasActiveAccess_FreeIncluded(u, t) ==
  isTrialActive(u, t) \/ isSubscriptionActive(u, t)

\* User.hasActiveAccess, evaluated at time t
userHasActiveAccess(u, t) ==
  (isTrialActive(u, t) \/ isSubscriptionActive(u, t)) /\ u.tier # "free"

isTrialExpired(u, t) ==
  u.tier = "trial" /\ u.trialExpiresAt # None /\ t >= u.trialExpiresAt

isSubscriptionExpired(u, t) ==
  u.tier # "trial" /\ u.subscriptionExpiresAt # None /\ t >= u.subscriptionExpiresAt

\* hasActiveAccess of checkUsageLimits: t0 is the `now` it captured, t the
\* clock when the getters of the row are evaluated
hasActiveAccess(u, t0, t) ==
  userHasActiveAccess(u, t) /\ ~isTrialExpired(u, t0) /\ ~isSubscriptionExpired(u, t0)

trialCapOk(u) ==
  LET limits == getPlanLimits(u.tier) IN
  (u.tier = "trial" /\ limits.totalSnapshotsAllowed # 0)
     => u.totalSnapshotsCreated < limits.totalSnapshotsAllowed

\* variant: a counter equal to the daily cap still passes
dailyCapOk_Inclusive(u) ==
  LET limits == getPlanLimits(u.tier) IN
  limits.maxSnapshotsPerDay # UNLIMITED
     => u.snapshotsCreatedToday <= limits.maxSnapshotsPerDay

dailyCapOk(u) ==
  LET limits == getPlanLimits(u.tier) IN
  limits.maxSnapshotsPerDay # UNLIMITED
     => u.snapshotsCreatedToday < limits.maxSnapshotsPerDay

canCreateSnapshot(u, t0, t) ==
  hasActiveAccess(u, t0, t) /\ trialCapOk(u) /\ dailyCapOk(u)

\* the UsageLimitsCheck that checkUsageLimits returns
checkUsageLimits(u, t0, t) ==
  [canCreateSnapshot |-> canCreateSnapshot(u, t0, t),
   hasActiveAccess |-> hasActiveAccess(u, t0, t),
   isTrialExpired |-> isTrialExpired(u, t0),
   isSubscriptionExpired |-> isSubscriptionExpired(u, t0)]

\* the message of the ForbiddenException thrown by incrementSnapshotUsage
rejectReason_NoAccessLast(u, t0, t) ==
  IF isTrialExpired(u, t0)
  THEN "Trial period has expired. Please upgrade to continue."
  ELSE IF isSubscriptionExpired(u, t0)
  THEN "Subscription has expired. Please renew to continue."
  ELSE "No active subscription found."

rejectReason(u, t0, t) ==
  IF isTrialExpired(u, t0)
  THEN "Trial period has expired. Please upgrade to continue."
  ELSE IF isSubscriptionExpired(u, t0)
  THEN "Subscription has expired. Please renew to continue."
  ELSE IF ~hasActiveAccess(u, t0, t) THEN "No active subscription found."
  ELSE "Daily snapshot limit reached. Upgrade your plan for more snapshots."

\* the row as resetDailyUsageIfNeeded leaves it
resetRow(u, t) ==
  [u EXCEPT !.snapshotsCreatedToday = 0, !.emailsSummarizedToday = 0,
            !.lastUsageResetDate = t]

\* variant: the timestamps are compared, not their calendar days
needsReset_ByInstant(u, t) == u.lastUsageResetDate # t

needsReset(u, t) == toDateString(u.lastUsageResetDate) # toDateString(t)

\* ------------------------------------------------------------------ Init
\* User rows as the schema defaults, startFreeTrial and upgradeUserPlan
\* leave them at time 0.
FreeUser == NoUser
TrialUser == [NoUser EXCEPT !.tier = "trial", !.trialStartedAt = 0,
                            !.trialExpiresAt = TRIAL_HOURS,
                            !.lastUsageResetDate = 0]
StarterUser == [NoUser EXCEPT !.tier = "starter", !.subscriptionStartedAt = 0,
                              !.subscriptionExpiresAt = MONTH_HOURS]

InitialUsers == {FreeUser, TrialUser, StarterUser}

Init ==
  /\ now = 0
  /\ users \in [Users -> InitialUsers]
  /\ snapshots = {}
  /\ items = {}
  /\ senders = {}
  /\ interactions = {}
  /\ nextId = 1
  /\ starts = 0
  /\ run = [r \in Runs |-> IdleRun]
  /\ sweep = IdleSweep
  /\ mail = PlainMailbox
  /\ plan = IdlePlan
  /\ deactivation = IdleDeactivation

\* ------------------------------------------------------- createSnapshot
MSG_NO_UNREAD == "No new unread emails found."
MSG_NO_NEW == "No new unread emails to process. All recent emails are already in existing snapshots."
MSG_SUCCESS(n) ==
  "Successfully created snapshot with " \o ToString(n) \o " email summaries."

\* the QueryFailedError of an insert that breaks UNIQUE (user_id, email_address)
UNIQUE_VIOLATION == "duplicate key value violates unique constraint"

\* the Error that generateEmailSnapshot throws when the completion fails
SUMMARY_ERROR ==
  "Failed to generate email snapshot: OpenAI returned empty response"

Returned(ok, msg) ==
  [success |-> ok, kind |-> "return", message |-> msg, cause |-> "none"]

\* the catch block of createSnapshot: every error leaves as a
\* BadRequestException('Failed to create snapshot: ' + cause)
Thrown(cause) ==
  [success |-> FALSE, kind |-> "BadRequestException",
   message |-> "Failed to create snapshot: " \o cause, cause |-> cause]

Finish(rr, res) ==
  [IdleRun EXCEPT !.pc = "done", !.user = rr.user, !.result = res, !.hist = rr.hist,
                  !.limits = rr.limits]

SetRun(r, rec) == run' = [run EXCEPT ![r] = rec]

SnapshotOf(id) == CHOOSE s \in snapshots : s.id = id

\* what the request before this one, of the same user, fetched and skipped,
\* when it returned success
PrevOf(rr, u) ==
  IF rr.pc = "done" /\ rr.result.success /\ rr.user = u
  THEN [unread |-> rr.hist.unread, skipped |-> Len(rr.newEmails) - rr.snapshotItems]
  ELSE NoPrev

\* POST /snapshots: a request of user u passes the JWT guard, which refuses
\* a deactivated account, and enters createSnapshot.  The second slot is
\* taken only while the first is busy.
Start(r, u) ==
  /\ users[u].isActive
  /\ run[r].pc \in {"idle", "done"}
  /\ starts < MaxStarts
  /\ r = 2 => run[1].pc \notin {"idle", "done"}
  /\ starts' = starts + 1
  /\ SetRun(r, [IdleRun EXCEPT !.pc = "checkA", !.user = u,
                                !.hist.prev = PrevOf(run[r], u),
                                !.hist.calls = run[r].hist.calls])
  /\ UNCHANGED <<acctVars, mail, now, dbVars, nextId, sweep>>

\* after checkUsageLimits has evaluated the row rr.luser
AfterCheck(rr) ==
  LET lim == checkUsageLimits(rr.luser, rr.lnow, now)
      r2 == [rr EXCEPT !.limits = lim]
  IN IF rr.pc \in {"checkA", "resetA"}
     THEN IF lim.canCreateSnapshot
          THEN [r2 EXCEPT !.pc = "incSnapshotsToday", !.hist.quotaPassed = TRUE]
          ELSE Finish(r2, Thrown(rejectReason(rr.luser, rr.lnow, now)))
     ELSE [r2 EXCEPT !.pc = "fetch"]

\* checkUsageLimits: userRepository.findOne; when no reset is due the limits
\* are evaluated without a further await
CheckFind(r) ==
  /\ run[r].pc \in {"checkA", "checkB"}
  /\ LET rr == [run[r] EXCEPT !.luser = users[run[r].user], !.lnow = now] IN
       IF needsReset(rr.luser, now)
       THEN SetRun(r, [rr EXCEPT !.pc = IF rr.pc = "checkA" THEN "resetA" ELSE "resetB"])
       ELSE SetRun(r, AfterCheck(rr))
  /\ UNCHANGED <<acctVars, mail, now, dbVars, nextId, starts, sweep>>

\* resetDailyUsageIfNeeded: userRepository.update of the three columns, then
\* the same on the local row, then the limits are evaluated
CheckReset(r) ==
  /\ run[r].pc \in {"resetA", "resetB"}
  /\ LET rr == run[r] IN
       /\ users' = [users EXCEPT ![rr.user] = resetRow(@, rr.lnow)]
       /\ SetRun(r, AfterCheck([rr EXCEPT !.luser = resetRow(rr.luser, rr.lnow)]))
  /\ UNCHANGED <<acctVars, mail, now, snapshots, items, senders, interactions, nextId,
                 starts, sweep>>

\* userRepository.increment(snapshotsCreatedToday, 1)
IncSnapshotsToday(r) ==
  /\ run[r].pc = "incSnapshotsToday"
  /\ users' = [users EXCEPT ![run[r].user].snapshotsCreatedToday = @ + 1]
  /\ SetRun(r, [run[r] EXCEPT !.pc = "incSnapshotsTotal"])
  /\ UNCHANGED <<acctVars, mail, now, snapshots, items, senders, interactions, nextId,
                 starts, sweep>>

\* userRepository.increment(totalSnapshotsCreated, 1)
IncSnapshotsTotal(r) ==
  /\ run[r].pc = "incSnapshotsTotal"
  /\ users' = [users EXCEPT ![run[r].user].totalSnapshotsCreated = @ + 1]
  /\ SetRun(r, [run[r] EXCEPT !.pc = "stamp"])
  /\ UNCHANGED <<acctVars, mail, now, snapshots, items, senders, interactions, nextId,
                 starts, sweep>>

\* userRepository.update(lastSnapshotDate)
StampLastSnapshot(r) ==
  /\ run[r].pc = "stamp"
  /\ users' = [users EXCEPT ![run[r].user].lastSnapshotDate = now]
  /\ SetRun(r, [run[r] EXCEPT !.pc = "checkB"])
  /\ UNCHANGED <<acctVars, mail, now, snapshots, items, senders, interactions, nextId,
                 starts, sweep>>

\* variant: the ceiling alone, whatever the tier allows
emailLimit_CeilingOnly(u) == MAX_EMAILS_FOR_SUMMARY

emailLimit(u) == Min(getPlanLimits(u.tier).maxEmailsPerSnapshot, MAX_EMAILS_FOR_SUMMARY)

\* what the mailbox provider can answer: unread messages, newest first (the
\* ids of MsgIds are in order of arrival), no id twice
RECURSIVE NewestFirst(_)
NewestFirst(S) ==
  IF S = {} THEN <<>>
  ELSE LET m == CHOOSE x \in S : \A y \in S : Rank(y) <= Rank(x)
       IN <<m>> \o NewestFirst(S \ {m})

Mailboxes == {NewestFirst(S) : S \in {T \in SUBSET MsgIds : Cardinality(T) <= MaxEmailCount}}

\* variant: the empty fetch is not answered, the request goes on to the
\* duplicate filter
Fetch_NoEmptyReturn(r, unreadMessages) ==
  /\ run[r].pc = "fetch"
  /\ LET rr == [run[r] EXCEPT !.hist.requested = emailLimit(run[r].luser)]
         unread == Prefix(unreadMessages, emailLimit(rr.luser)) IN
       /\ unread = unreadMessages
       /\ SetRun(r, [rr EXCEPT !.pc = "dedup", !.unreadEmails = unread,
                                !.hist.unread = unread])
  /\ UNCHANGED <<acctVars, mail, now, dbVars, nextId, starts, sweep>>

\* emailService.fetchGmailMessages(user, emailLimit): at most emailLimit of
\* the unread messages
Fetch(r, unreadMessages) ==
  /\ run[r].pc = "fetch"
  /\ LET rr == [run[r] EXCEPT !.hist.requested = emailLimit(run[r].luser)]
         unread == Prefix(unreadMessages, emailLimit(rr.luser)) IN
       /\ unread = unreadMessages
       /\ IF Len(unread) = 0
          THEN SetRun(r, Finish(rr, Returned(FALSE, MSG_NO_UNREAD)))
          ELSE SetRun(r, [rr EXCEPT !.pc = "dedup", !.unreadEmails = unread,
                                    !.hist.unread = unread])
  /\ UNCHANGED <<acctVars, mail, now, dbVars, nextId, starts, sweep>>

\* variant: only the snapshots of earlier days are consulted
getExistingMessageIds_BeforeToday(u) ==
  {it.messageId : it \in {x \in items : \E s \in snapshots :
                                           /\ s.id = x.snapshotId /\ s.userId = u
                                           /\ toDateString(s.createdAt) < toDateString(now)}}

\* fetchGmailMessages without a refresh token, or with a transport or
\* authentication error of the Gmail API: the error is logged and [] returned
FetchFails(r) ==
  /\ run[r].pc = "fetch"
  /\ SetRun(r, Finish([run[r] EXCEPT !.hist.fetchFailed = TRUE,
                                      !.hist.requested = emailLimit(run[r].luser)],
                      Returned(FALSE, MSG_NO_UNREAD)))
  /\ UNCHANGED <<acctVars, mail, now, dbVars, nextId, starts, sweep>>

\* getExistingMessageIds: items inner-joined to the snapshots of the user
getExistingMessageIds(u) ==
  {it.messageId : it \in {x \in items : \E s \in snapshots :
                                           s.id = x.snapshotId /\ s.userId = u}}

\* variant: when nothing is new the daily slot is given back
Dedup_Refund(r) ==
  /\ run[r].pc = "dedup"
  /\ LET rr == run[r]
         existing == getExistingMessageIds(rr.user)
         fresh == SelectSeq2(rr.unreadEmails, existing) IN
       IF Len(fresh) = 0
       THEN /\ SetRun(r, Finish(rr, Returned(FALSE, MSG_NO_NEW)))
            /\ users' = [users EXCEPT ![rr.user].snapshotsCreatedToday =
                                         IF @ > 0 THEN @ - 1 ELSE @]
       ELSE /\ SetRun(r, [rr EXCEPT !.pc = "create", !.newEmails = fresh,
                                    !.unreadEmails = <<>>])
            /\ UNCHANGED users
  /\ UNCHANGED <<acctVars, mail, now, snapshots, items, senders, interactions, nextId,
                 starts, sweep>>

Dedup(r) ==
  /\ run[r].pc = "dedup"
  /\ LET rr == run[r]
         existing == getExistingMessageIds(rr.user)
         fresh == SelectSeq2(rr.unreadEmails, existing) IN
       IF Len(fresh) = 0
       THEN SetRun(r, Finish(rr, Returned(FALSE, MSG_NO_NEW)))
       ELSE SetRun(r, [rr EXCEPT !.pc = "create", !.newEmails = fresh,
                                 !.unreadEmails = <<>>])
  /\ UNCHANGED <<acctVars, mail, now, dbVars, nextId, starts, sweep>>

\* createSnapshotRecord
createSnapshotRecord(id, u) ==
  [id |-> id, userId |-> u, createdAt |-> now,
   retentionExpiresAt |-> now + RETENTION_HOURS, totalItems |-> 0]

Create(r) ==
  /\ run[r].pc = "create"
  /\ LET rr == run[r]
         row == createSnapshotRecord(nextId, rr.user) IN
       /\ snapshots' = snapshots \cup {row}
       /\ SetRun(r, [rr EXCEPT !.pc = "findSender", !.snapshot = row, !.i = 1,
                               !.snapshotItems = 0, !.hist.snapshotId = row.id,
                               !.hist.wrote = @ + 1])
  /\ nextId' = nextId + 1
  /\ UNCHANGED <<acctVars, mail, now, users, items, senders, interactions, starts, sweep>>

\* ------------------------------------------------ processEmailsToItems
\* end of one loop iteration; after the last message createSnapshot tests
\* snapshotItems.length without a further await
NextEmail(rr) ==
  IF rr.i < Len(rr.newEmails)
  THEN [rr EXCEPT !.pc = "findSender", !.i = @ + 1]
  ELSE IF rr.snapshotItems = 0
       THEN Finish(rr, Returned(FALSE, MSG_NO_NEW))
       ELSE [rr EXCEPT !.pc = "finalize"]

SenderRows(u, email) == {s \in senders : s.userId = u /\ s.emailAddress = email}

\* getOrCreateSender: senderRepository.findOne
FindSender(r) ==
  /\ run[r].pc = "findSender"
  /\ LET rr == run[r]
         found == SenderRows(rr.user, SenderEmailOf(rr.newEmails[rr.i])) IN
       SetRun(r, [rr EXCEPT !.pc = "saveSender",
                            !.sender = IF found = {} THEN NoSender
                                       ELSE CHOOSE s \in found : TRUE])
  /\ UNCHANGED <<acctVars, mail, now, dbVars, nextId, starts, sweep>>

\* variant: the row that was found is saved as it is
SaveSender_NoIncrement(r) ==
  /\ run[r].pc = "saveSender"
  /\ LET rr == run[r]
         email == SenderEmailOf(rr.newEmails[rr.i])
         row == IF rr.sender = NoSender
                THEN [id |-> <<rr.user, email>>, userId |-> rr.user,
                      emailAddress |-> email, totalEmails |-> 1]
                ELSE rr.sender IN
       IF rr.sender = NoSender /\ SenderRows(rr.user, email) # {}
       THEN /\ SetRun(r, Finish(rr, Thrown(UNIQUE_VIOLATION)))
            /\ UNCHANGED senders
       ELSE /\ senders' = {s \in senders : s.id # row.id} \cup {row}
            /\ SetRun(r, [rr EXCEPT !.pc = "summarize", !.sender = row,
                                    !.hist.wrote = @ + 1, !.hist.calls = @ + 1])
  /\ UNCHANGED <<acctVars, mail, now, users, snapshots, items, interactions, nextId,
                 starts, sweep>>

\* getOrCreateSender: senderRepository.save of the created or incremented row;
\* UNIQUE (user_id, email_address) rejects a second row of the pair
SaveSender(r) ==
  /\ run[r].pc = "saveSender"
  /\ LET rr == run[r]
         email == SenderEmailOf(rr.newEmails[rr.i])
         row == IF rr.sender = NoSender
                THEN [id |-> <<rr.user, email>>, userId |-> rr.user,
                      emailAddress |-> email, totalEmails |-> 1]
                ELSE [rr.sender EXCEPT !.totalEmails = @ + 1] IN
       IF rr.sender = NoSender /\ SenderRows(rr.user, email) # {}
       THEN /\ SetRun(r, Finish(rr, Thrown(UNIQUE_VIOLATION)))
            /\ UNCHANGED senders
       ELSE /\ senders' = {s \in senders : s.id # row.id} \cup {row}
            /\ SetRun(r, [rr EXCEPT !.pc = "summarize", !.sender = row,
                                    !.hist.wrote = @ + 1, !.hist.calls = @ + 1])
  /\ UNCHANGED <<acctVars, mail, now, users, snapshots, items, interactions, nextId,
                 starts, sweep>>

SummaryOutcomes == {"content", "empty", "throws"}

\* aiSummaryService.generateEmailSnapshot(message): a summary with content,
\* an empty summary, or an Error thrown out of the call
Summarize(r, outcome) ==
  /\ run[r].pc = "summarize"
  /\ LET rr == run[r] IN
       CASE outcome = "content" -> SetRun(r, [rr EXCEPT !.pc = "saveItem"])
         [] outcome = "empty"   -> SetRun(r, NextEmail(rr))
         [] outcome = "throws"  ->
              SetRun(r, Finish(rr, Thrown(SUMMARY_ERROR)))
  /\ UNCHANGED <<acctVars, mail, now, dbVars, nextId, starts, sweep>>

\* variant: snapshot_items carries no foreign key to snapshots
SaveItem_NoForeignKey(r) ==
  /\ run[r].pc = "saveItem"
  /\ LET rr == run[r]
         item == snapshotItem(rr.snapshot.id, rr.i, rr.sender.id,
                              GmailMessageDto(rr.newEmails[rr.i])) IN
       /\ items' = items \cup {item}
       /\ SetRun(r, NextEmail([rr EXCEPT !.snapshotItems = @ + 1,
                                         !.hist.wrote = @ + 1]))
  /\ UNCHANGED <<acctVars, mail, now, users, snapshots, senders, interactions, nextId,
                 starts, sweep>>

\* snapshotItemRepository.save: the foreign keys of snapshot_items to
\* snapshots and senders reject an item whose parent row is gone
SaveItem(r) ==
  /\ run[r].pc = "saveItem"
  /\ LET rr == run[r]
         item == snapshotItem(rr.snapshot.id, rr.i, rr.sender.id,
                              GmailMessageDto(rr.newEmails[rr.i])) IN
       IF (\E s \in snapshots : s.id = item.snapshotId)
          /\ (\E s \in senders : s.id = item.senderId)
       THEN /\ items' = items \cup {item}
            /\ SetRun(r, NextEmail([rr EXCEPT !.snapshotItems = @ + 1,
                                              !.hist.wrote = @ + 1]))
       ELSE /\ SetRun(r, Finish(rr, Thrown("violates foreign key constraint")))
            /\ UNCHANGED items
  /\ UNCHANGED <<acctVars, mail, now, users, snapshots, senders, interactions, nextId,
                 starts, sweep>>

\* snapshot.totalItems = snapshotItems.length; snapshotRepository.save, which
\* updates the row of that id and inserts the entity when the row is gone
Finalize(r) ==
  /\ run[r].pc = "finalize"
  /\ LET rr == run[r]
         row == [rr.snapshot EXCEPT !.totalItems = rr.snapshotItems]
         old == {s \in snapshots : s.id = row.id} IN
       /\ snapshots' = (snapshots \ old)
                         \cup {IF old = {} THEN row
                               ELSE [(CHOOSE s \in old : TRUE) EXCEPT
                                       !.totalItems = rr.snapshotItems]}
       /\ SetRun(r, [rr EXCEPT !.pc = "incEmailsToday", !.snapshot = row])
  /\ UNCHANGED <<acctVars, mail, now, users, items, senders, interactions, nextId,
                 starts, sweep>>

\* variant: the messages considered are counted, not the items created
IncEmailsToday_Considered(r) ==
  /\ run[r].pc = "incEmailsToday"
  /\ users' = [users EXCEPT ![run[r].user].emailsSummarizedToday =
                                             @ + Len(run[r].newEmails)]
  /\ SetRun(r, [run[r] EXCEPT !.pc = "incEmailsTotal"])
  /\ UNCHANGED <<acctVars, mail, now, snapshots, items, senders, interactions, nextId,
                 starts, sweep>>

\* incrementEmailSummarization: increment(emailsSummarizedToday, emailCount)
IncEmailsToday(r) ==
  /\ run[r].pc = "incEmailsToday"
  /\ users' = [users EXCEPT ![run[r].user].emailsSummarizedToday =
                                             @ + run[r].snapshotItems]
  /\ SetRun(r, [run[r] EXCEPT !.pc = "incEmailsTotal"])
  /\ UNCHANGED <<acctVars, mail, now, snapshots, items, senders, interactions, nextId,
                 starts, sweep>>

\* incrementEmailSummarization: increment(totalEmailsSummarized, emailCount),
\* then createSnapshot returns success
IncEmailsTotal(r) ==
  /\ run[r].pc = "incEmailsTotal"
  /\ users' = [users EXCEPT ![run[r].user].totalEmailsSummarized =
                                             @ + run[r].snapshotItems]
  /\ SetRun(r, [Finish(run[r], Returned(TRUE, MSG_SUCCESS(run[r].snapshotItems))) EXCEPT
                  !.snapshot = run[r].snapshot,
                  !.snapshotItems = run[r].snapshotItems,
                  !.newEmails = run[r].newEmails])
  /\ UNCHANGED <<acctVars, mail, now, snapshots, items, senders, interactions, nextId,
                 starts, sweep>>

\* ---------------------------------------------- cleanupExpiredSnapshots
\* snapshotRepository.find({ createdAt: LessThan(oneHourAgo) })
TestExpired(cutoff) == {s \in snapshots : s.createdAt < cutoff}

\* the cron fires: oneHourAgo is computed and the first find runs
SweepFind ==
  /\ sweep.pc \in {"idle", "done"}
  /\ LET cutoff == now - TEST_WINDOW_HOURS IN
       sweep' = IF TestExpired(cutoff) = {}
                THEN [IdleSweep EXCEPT !.pc = "done", !.startedAt = now,
                                       !.oneHourAgo = cutoff, !.result = "nothing"]
                ELSE [IdleSweep EXCEPT !.pc = "findIds", !.startedAt = now,
                                       !.oneHourAgo = cutoff]
  /\ UNCHANGED <<acctVars, mail, now, dbVars, nextId, starts, run>>

\* the second find, selecting the ids
SweepFindIds ==
  /\ sweep.pc = "findIds"
  /\ LET ids == {s.id : s \in TestExpired(sweep.oneHourAgo)} IN
       sweep' = IF ids = {}
                THEN [sweep EXCEPT !.pc = "done", !.result = "nothing"]
                ELSE [sweep EXCEPT !.pc = "deleteItems", !.snapshotIds = ids]
  /\ UNCHANGED <<acctVars, mail, now, dbVars, nextId, starts, run>>

\* DELETE FROM snapshot_items WHERE snapshot_id = ANY(ids); the foreign key
\* of user_interactions (ON DELETE NO ACTION) fails the statement
SweepDeleteItems ==
  /\ sweep.pc = "deleteItems"
  /\ LET victims == {it \in items : it.snapshotId \in sweep.snapshotIds} IN
       IF \E x \in interactions : \E it \in victims : x.snapshotItemId = it.id
       THEN /\ sweep' = [sweep EXCEPT !.pc = "done", !.result = "error"]
            /\ UNCHANGED items
       ELSE /\ sweep' = [sweep EXCEPT !.pc = "deleteSnapshots"]
            /\ items' = items \ victims
  /\ UNCHANGED <<acctVars, mail, now, users, snapshots, senders, interactions, nextId,
                 starts, run>>

\* snapshotRepository.delete({ id: In(ids) }); the foreign key of
\* snapshot_items (ON DELETE NO ACTION) fails the statement
SweepDeleteSnapshots ==
  /\ sweep.pc = "deleteSnapshots"
  /\ IF \E it \in items : it.snapshotId \in sweep.snapshotIds
     THEN /\ sweep' = [sweep EXCEPT !.pc = "done", !.result = "error"]
          /\ UNCHANGED snapshots
     ELSE /\ sweep' = [sweep EXCEPT !.pc = "done", !.result = "deleted"]
          /\ snapshots' = {s \in snapshots : s.id \notin sweep.snapshotIds}
  /\ UNCHANGED <<acctVars, mail, now, users, items, senders, interactions, nextId,
                 starts, run>>

\* ------------------------------------------------------------ environment
Tick(t) ==
  /\ t > now
  /\ now' = t
  /\ UNCHANGED <<acctVars, mail, dbVars, nextId, starts, run, sweep>>

\* a user action on an item is logged in user_interactions
RecordInteraction(it) ==
  /\ Cardinality(interactions) < MaxInteractions
  /\ it \in items
  /\ \E s \in snapshots : s.id = it.snapshotId
  /\ interactions' = interactions \cup
        {[userId |-> SnapshotOf(it.snapshotId).userId, snapshotItemId |-> it.id]}
  /\ UNCHANGED <<acctVars, mail, now, users, snapshots, items, senders, nextId, starts,
                 run, sweep>>

\* one step of the createSnapshot invocation r
RunStep(r) ==
  \/ CheckFind(r)
  \/ CheckReset(r)
  \/ IncSnapshotsToday(r)
  \/ IncSnapshotsTotal(r)
  \/ StampLastSnapshot(r)
  \/ \E q \in Mailboxes : Fetch(r, q)
  \/ FetchFails(r)
  \/ Dedup(r)
  \/ Create(r)
  \/ FindSender(r)
  \/ SaveSender(r)
  \/ \E o \in SummaryOutcomes : Summarize(r, o)
  \/ SaveItem(r)
  \/ Finalize(r)
  \/ IncEmailsToday(r)
  \/ IncEmailsTotal(r)

\* Requests of one user that may overlap, on an unchanging clock.
Next ==
  \/ \E r \in Runs, u \in Users : Start(r, u)
  \/ \E r \in Runs : RunStep(r)

Spec == Init /\ [][Next]_vars

\* One request at a time, the sweeper cron, the clock and the interaction log.
NextSweep ==
  \/ \E u \in Users : Start(1, u)
  \/ RunStep(1)
  \/ SweepFind
  \/ SweepFindIds
  \/ SweepDeleteItems
  \/ SweepDeleteSnapshots
  \/ \E t \in Instants : Tick(t)
  \/ \E it \in items : RecordInteraction(it)

SpecSweep == Init /\ [][NextSweep]_vars

\* ------------------------------------------------- any stored user row
\* The expiry columns of a row: unset, or an instant of the first day.
ExpiryValues == {None, 10}

\* <<snapshotsCreatedToday, totalSnapshotsCreated>> of a row
UsageValues == {<<0, 0>>, <<1, 1>>, <<0, 2>>, <<1, 2>>, <<2, 2>>}

\* The rows that startFreeTrial, upgradeUserPlan (which takes any tier and
\* leaves the trial columns alone) and earlier requests leave behind; a row
\* that no quota check has touched yet has no lastUsageResetDate and has
\* counted nothing.
AccessUsers ==
  {[NoUser EXCEPT !.tier = t, !.trialExpiresAt = te, !.subscriptionExpiresAt = se,
                  !.snapshotsCreatedToday = c[1], !.emailsSummarizedToday = c[1],
                  !.totalSnapshotsCreated = c[2], !.totalEmailsSummarized = c[2],
                  !.lastUsageResetDate = 0] :
      t \in Tiers, te \in ExpiryValues, se \in ExpiryValues, c \in UsageValues}
  \cup
  {[NoUser EXCEPT !.tier = t, !.trialExpiresAt = te, !.subscriptionExpiresAt = se] :
      t \in Tiers, te \in ExpiryValues, se \in ExpiryValues}

InitAccess ==
  /\ now \in Instants
  /\ users \in [Users -> AccessUsers]
  /\ snapshots = {}
  /\ items = {}
  /\ senders = {}
  /\ interactions = {}
  /\ nextId = 1
  /\ starts = 0
  /\ run = [r \in Runs |-> IdleRun]
  /\ sweep = IdleSweep
  /\ mail = PlainMailbox
  /\ plan = IdlePlan
  /\ deactivation = IdleDeactivation

\* Requests one after the other, on any stored user row at any instant.
NextAccess ==
  \/ \E u \in Users : Start(1, u)
  \/ RunStep(1)

SpecAccess == InitAccess /\ [][NextAccess]_vars

\* ---------------------------------------------------------------- queries
\* the authenticated callers: the users of the store and one more account
Callers == Users \cup {"u2"}

NOT_FOUND == [kind |-> "NotFoundException", message |-> "Snapshot not found"]

getSnapshotWithItems_ById(userId, snapshotId) ==
  LET found == {s \in snapshots : s.id = snapshotId} IN
  IF found = {} THEN NOT_FOUND
  ELSE [kind |-> "return", snapshot |-> CHOOSE s \in found : TRUE,
        items |-> {it \in items : it.snapshotId = snapshotId}]

\* getSnapshotWithItems: findOne where id and userId, with the items
getSnapshotWithItems(userId, snapshotId) ==
  LET found == {s \in snapshots : s.id = snapshotId /\ s.userId = userId} IN
  IF found = {} THEN NOT_FOUND
  ELSE [kind |-> "return", snapshot |-> CHOOSE s \in found : TRUE,
        items |-> {it \in items : it.snapshotId = snapshotId}]

\* ------------------------------------------------------- subscription plan
\* the instants at which the clock is observed while plans change: the day
\* of sign-up, the next day, a day after a 7-day trial and a day after a
\* monthly subscription begun on either of the first two
PlanInstants == {0, 30, 200, 800}

BillingCycles == {"monthly", "yearly"}

CycleHours(c) == IF c = "yearly" THEN YEAR_HOURS ELSE MONTH_HOURS

\* variant: the lifetime counters are left as they are
trialUser_KeepsLifetimeCounters(user, t) ==
  [user EXCEPT !.tier = "trial",
               !.trialStartedAt = t,
               !.trialExpiresAt = t + TRIAL_HOURS,
               !.snapshotsCreatedToday = 0,
               !.emailsSummarizedToday = 0,
               !.lastUsageResetDate = t]

\* the entity as the assignments of startFreeTrial leave it at time t
trialUser(user, t) ==
  [user EXCEPT !.tier = "trial",
               !.trialStartedAt = t,
               !.trialExpiresAt = t + TRIAL_HOURS,
               !.snapshotsCreatedToday = 0,
               !.totalSnapshotsCreated = 0,
               !.emailsSummarizedToday = 0,
               !.totalEmailsSummarized = 0,
               !.lastUsageResetDate = t]

\* the entity as the assignments of upgradeUserPlan leave it at time t
upgradedUser(user, newTier, billingCycle, t) ==
  [user EXCEPT !.tier = newTier,
               !.subscriptionStartedAt = t,
               !.subscriptionExpiresAt = t + CycleHours(billingCycle)]

\* startFreeTrial(user): the row is saved as a trial of 7 days with all four
\* usage counters zeroed; the controller calls it for any authenticated user
startFreeTrial(u) ==
  /\ users' = [users EXCEPT ![u] = trialUser(@, now)]
  /\ UNCHANGED <<acctVars, mail, now, snapshots, items, senders, interactions, nextId, starts,
                 run, sweep>>

\* upgradeUserPlan(userId, newTier, billingCycle): the tier of the path
\* parameter and the subscription expiry are written; findOne and save are
\* taken as one step, which it is while no other request is in flight
upgradeUserPlan(u, newTier, billingCycle) ==
  /\ users' = [users EXCEPT ![u] = upgradedUser(@, newTier, billingCycle, now)]
  /\ UNCHANGED <<acctVars, mail, now, snapshots, items, senders, interactions, nextId, starts,
                 run, sweep>>

InitPlan ==
  /\ now = 0
  /\ users = [u \in Users |-> FreeUser]
  /\ snapshots = {}
  /\ items = {}
  /\ senders = {}
  /\ interactions = {}
  /\ nextId = 1
  /\ starts = 0
  /\ run = [r \in Runs |-> IdleRun]
  /\ sweep = IdleSweep
  /\ mail = PlainMailbox
  /\ plan = IdlePlan
  /\ deactivation = IdleDeactivation

\* no createSnapshot request is in flight
Quiet == \A r \in Runs : run[r].pc \in {"idle", "done"}

\* A user who signs up free, starts trials and changes plans between
\* createSnapshot requests, while the clock advances.
NextPlan ==
  \/ \E u \in Users : Start(1, u)
  \/ RunStep(1)
  \/ Quiet /\ \E u \in Users : startFreeTrial(u)
  \/ Quiet /\ \E u \in Users, t \in Tiers, c \in BillingCycles : upgradeUserPlan(u, t, c)
  \/ Quiet /\ \E t \in PlanInstants : Tick(t)

SpecPlan == InitPlan /\ [][NextPlan]_vars

\* --------------------------------------------- plan requests, step by step
Columns == DOMAIN NoUser

\* POST /subscription/start-trial: the JWT guard reads the row into req.user,
\* startFreeTrial assigns to that entity and calls userRepository.save
StartTrialRequest(u) ==
  /\ plan.pc = "idle"
  /\ users[u].isActive
  /\ plan' = [IdlePlan EXCEPT !.pc = "saveLoad", !.op = "startTrial", !.userId = u,
                              !.user = trialUser(users[u], now)]
  /\ UNCHANGED <<deactivation, mail, now, dbVars, nextId, starts, run, sweep>>

\* POST /subscription/upgrade/:tier: upgradeUserPlan reads the row with
\* findOne, assigns to the entity and calls userRepository.save
UpgradeRequest(u, newTier, billingCycle) ==
  /\ plan.pc = "idle"
  /\ users[u].isActive
  /\ plan' = [IdlePlan EXCEPT !.pc = "saveLoad", !.op = "upgrade", !.userId = u,
                              !.newTier = newTier, !.billingCycle = billingCycle,
                              !.user = upgradedUser(users[u], newTier,
                                                    billingCycle, now)]
  /\ UNCHANGED <<deactivation, mail, now, dbVars, nextId, starts, run, sweep>>

\* userRepository.save(user), first statement: the row is read again and the
\* columns in which the entity differs from it are the ones to update
PlanSaveLoad ==
  /\ plan.pc = "saveLoad"
  /\ LET changed == {c \in Columns : plan.user[c] # users[plan.userId][c]} IN
       plan' = [plan EXCEPT !.pc = IF changed = {} THEN "done" ELSE "saveUpdate",
                            !.changed = changed]
  /\ UNCHANGED <<deactivation, mail, now, dbVars, nextId, starts, run, sweep>>

\* the row after an UPDATE that sets the columns cols to their values in user
updatedColumns(row, user, cols) ==
  [c \in Columns |-> IF c \in cols THEN user[c] ELSE row[c]]

\* userRepository.save(user), second statement: UPDATE of the columns that
\* differed, with the values of the entity
PlanSaveUpdate ==
  /\ plan.pc = "saveUpdate"
  /\ users' = [users EXCEPT ![plan.userId] = updatedColumns(@, plan.user, plan.changed)]
  /\ plan' = [plan EXCEPT !.pc = "done"]
  /\ UNCHANGED <<deactivation, mail, now, snapshots, items, senders, interactions,
                 nextId, starts, run, sweep>>

\* the row a user has after deactivation and a new sign-in following a trial
ReturnedUser == [TrialUser EXCEPT !.tier = "free", !.lastUsageResetDate = None]

\* the row of a starter user who created a snapshot of one message and was
\* then set to the free tier by POST /subscription/upgrade/free
DowngradedUser ==
  [StarterUser EXCEPT !.tier = "free",
                      !.snapshotsCreatedToday = 1, !.totalSnapshotsCreated = 1,
                      !.emailsSummarizedToday = 1, !.totalEmailsSummarized = 1,
                      !.lastSnapshotDate = 0, !.lastUsageResetDate = 0]

InitPlanRace ==
  /\ now \in {0, 30}
  /\ users \in [Users -> InitialUsers \cup {ReturnedUser, DowngradedUser}]
  /\ snapshots = {}
  /\ items = {}
  /\ senders = {}
  /\ interactions = {}
  /\ nextId = 1
  /\ starts = 0
  /\ run = [r \in Runs |-> IdleRun]
  /\ sweep = IdleSweep
  /\ mail = PlainMailbox
  /\ plan = IdlePlan
  /\ deactivation = IdleDeactivation

\* One start-trial or upgrade request of a user, in its separate statements,
\* beside the createSnapshot requests of the same user.
NextPlanRace ==
  \/ \E u \in Users : Start(1, u)
  \/ RunStep(1)
  \/ \E u \in Users : StartTrialRequest(u)
  \/ \E u \in Users, t \in Tiers, c \in BillingCycles : UpgradeRequest(u, t, c)
  \/ PlanSaveLoad
  \/ PlanSaveUpdate

SpecPlanRace == InitPlanRace /\ [][NextPlanRace]_vars

\* ---------------------------------------------------- account deactivation
\* DELETE /auth/profile: the JWT guard admits the active user and
\* deleteCurrentUser reads the row with findUserById
DeleteAccount(u) ==
  /\ deactivation.pc = "idle"
  /\ users[u].isActive
  /\ deactivation' = [pc |-> "cleanup", userId |-> u]
  /\ UNCHANGED <<plan, mail, now, dbVars, nextId, starts, run, sweep>>

SnapshotIdsOf(u) == {s.id : s \in {x \in snapshots : x.userId = u}}

\* cleanupUserData: one transaction that deletes the user_interactions of
\* the user, the snapshot_items of the user's snapshots, the snapshots and
\* the senders; the transaction is taken at its commit
CleanupUserData ==
  /\ deactivation.pc = "cleanup"
  /\ LET u == deactivation.userId IN
       /\ interactions' = {x \in interactions : x.userId # u}
       /\ items' = {it \in items : it.snapshotId \notin SnapshotIdsOf(u)}
       /\ snapshots' = {s \in snapshots : s.userId # u}
       /\ senders' = {s \in senders : s.userId # u}
  /\ deactivation' = [deactivation EXCEPT !.pc = "update"]
  /\ UNCHANGED <<plan, mail, now, users, nextId, starts, run, sweep>>

\* the row after the userRepository.update of deleteCurrentUser: the account
\* is marked inactive, the counters are zeroed and the tier set to free; the
\* properties passed as undefined name no column of the UPDATE
deactivatedUser(user) ==
  [user EXCEPT !.isActive = FALSE,
               !.snapshotsCreatedToday = 0,
               !.totalSnapshotsCreated = 0,
               !.emailsSummarizedToday = 0,
               !.totalEmailsSummarized = 0,
               !.tier = "free"]

DeactivateUpdate ==
  /\ deactivation.pc = "update"
  /\ users' = [users EXCEPT ![deactivation.userId] = deactivatedUser(@)]
  /\ deactivation' = [deactivation EXCEPT !.pc = "done"]
  /\ UNCHANGED <<plan, mail, now, snapshots, items, senders, interactions,
                 nextId, starts, run, sweep>>

InitAccount ==
  /\ now = 0
  /\ users \in [Users -> InitialUsers]
  /\ snapshots = {}
  /\ items = {}
  /\ senders = {}
  /\ interactions = {}
  /\ nextId = 1
  /\ starts = 0
  /\ run = [r \in Runs |-> IdleRun]
  /\ sweep = IdleSweep
  /\ mail = PlainMailbox
  /\ plan = IdlePlan
  /\ deactivation = IdleDeactivation

\* A user who creates snapshots, acts on their items and deletes the
\* account, also while a createSnapshot is in progress.
NextAccount ==
  \/ \E u \in Users : Start(1, u)
  \/ RunStep(1)
  \/ \E it \in items : RecordInteraction(it)
  \/ \E u \in Users : DeleteAccount(u)
  \/ CleanupUserData
  \/ DeactivateUpdate

SpecAccount == InitAccount /\ [][NextAccount]_vars

\* ------------------------------------------------------- scored messages
\* The newest message of the mailbox is any message of MailData, the other a
\* plain one; the user is on the starter plan.
InitScore ==
  /\ now = 0
  /\ users = [u \in Users |-> StarterUser]
  /\ snapshots = {}
  /\ items = {}
  /\ senders = {}
  /\ interactions = {}
  /\ nextId = 1
  /\ starts = 0
  /\ run = [r \in Runs |-> IdleRun]
  /\ sweep = IdleSweep
  /\ \E d \in MailData : mail = [PlainMailbox EXCEPT !["m2"] = d]
  /\ plan = IdlePlan
  /\ deactivation = IdleDeactivation

\* Requests one after the other on a mailbox of any content.
NextScore ==
  \/ \E u \in Users : Start(1, u)
  \/ RunStep(1)

SpecScore == InitScore /\ [][NextScore]_vars

\* ============================================================= properties
ItemsOf(id) == {it \in items : it.snapshotId = id}

Stepped(r) == run'[r] # run[r]

DailyCap(u) == getPlanLimits(users[u].tier).maxSnapshotsPerDay

\* C1: two overlapping createSnapshot requests of one user never both pass
\* the quota check on the last free slot: snapshotsCreatedToday never exceeds
\* the daily cap of the tier.
C1_DailyCapNeverExceeded ==
  \A u \in Users :
    DailyCap(u) # UNLIMITED => users[u].snapshotsCreatedToday <= DailyCap(u)

\* the message ids held by the items of the snapshots of user u
StoredMessageIds(u) ==
  {it.messageId : it \in {x \in items : SnapshotOf(x.snapshotId).userId = u}}

AllStored(q, u) == \A k \in 1..Len(q) : q[k] \in StoredMessageIds(u)

SecondOfTwo(r) ==
  /\ run[r].pc = "done"
  /\ run[r].hist.prev # NoPrev
  /\ run[r].hist.unread = run[r].hist.prev.unread

NoNewNoSnapshot(r) ==
  /\ run[r].result = Returned(FALSE, MSG_NO_NEW)
  /\ run[r].hist.snapshotId = 0

\* C3 (as stated): of two createSnapshot requests in immediate succession on
\* an unchanged mailbox, the second returns success=false with the
\* no-new-emails message and creates no second Snapshot.
C3_Original == \A r \in Runs : SecondOfTwo(r) => NoNewNoSnapshot(r)

\* C3 (amended): the same, provided the first request created an Item for
\* every new message, none being skipped for an empty summary.
C3_SecondRunDeduplicated ==
  \A r \in Runs :
    (SecondOfTwo(r) /\ run[r].hist.prev.skipped = 0) => NoNewNoSnapshot(r)

C3_Witness ==
  \E r \in Runs :
    SecondOfTwo(r) /\ run[r].hist.prev.skipped = 0 /\ NoNewNoSnapshot(r)

Gone(s) == \A t \in snapshots' : t.id # s.id

\* C4: the sweeper deletes a Snapshot, and an Item, only when the
\* retentionExpiresAt of the Snapshot has passed.
C4_DeletesOnlyExpired ==
  [][/\ \A s \in snapshots : Gone(s) => s.retentionExpiresAt <= now
     /\ \A it \in items :
          it \notin items' => SnapshotOf(it.snapshotId).retentionExpiresAt <= now
    ]_vars

\* C5: once a sweeper run that began after the retentionExpiresAt of a
\* Snapshot has ended, neither the Snapshot nor any of its Items is left.
C5_ExpiredGoneAfterSweep ==
  sweep.pc = "done" =>
    /\ \A s \in snapshots : s.retentionExpiresAt >= sweep.startedAt
    /\ \A it \in items : \A s \in snapshots :
          s.id = it.snapshotId => s.retentionExpiresAt >= sweep.startedAt

\* C6: every SnapshotItem references a Snapshot row that exists.
C6_NoOrphanedItem ==
  \A it \in items : \E s \in snapshots : s.id = it.snapshotId

\* the sweeper stands between its two delete statements while a request is
\* about to add an Item to a Snapshot it has selected
C6_Witness ==
  /\ sweep.pc = "deleteSnapshots"
  /\ run[1].pc = "saveItem"
  /\ run[1].snapshot.id \in sweep.snapshotIds
  /\ C6_NoOrphanedItem

\* C7: a summarization that fails never aborts the request: no createSnapshot
\* ends with the error of the summarization call.
C7_FailedSummaryIsSkipped ==
  \A r \in Runs :
    run[r].pc = "done" => run[r].result # Thrown(SUMMARY_ERROR)

Today(u) == users[u].snapshotsCreatedToday
Total(u) == users[u].totalSnapshotsCreated

\* C8: a request that passes the quota check adds exactly 1 to
\* snapshotsCreatedToday and to totalSnapshotsCreated, and none of its later
\* steps, whatever its outcome, takes the consumption back.
C8_ConsumptionKept ==
  [][\A r \in Runs :
       LET u == run[r].user IN
       /\ (~run[r].hist.quotaPassed /\ run'[r].hist.quotaPassed) =>
            run'[r].pc = "incSnapshotsToday"
       /\ (run[r].pc = "incSnapshotsToday" /\ Stepped(r)) =>
            /\ Today(u)' = Today(u) + 1
            /\ Total(u)' = Total(u)
            /\ run'[r].pc = "incSnapshotsTotal"
       /\ (run[r].pc = "incSnapshotsTotal" /\ Stepped(r)) =>
            /\ Total(u)' = Total(u) + 1
            /\ Today(u)' = Today(u)
            /\ run'[r].pc = "stamp"
       /\ (run[r].hist.quotaPassed /\ Stepped(r)
             /\ run[r].pc \notin {"incSnapshotsToday", "incSnapshotsTotal"}) =>
            /\ Today(u)' = Today(u)
            /\ Total(u)' = Total(u)
    ]_vars

\* a request that consumed its slot and then ended without a snapshot
C8_Witness ==
  \E r \in Runs :
    /\ run[r].pc = "done"
    /\ run[r].hist.quotaPassed
    /\ ~run[r].result.success
    /\ Total(run[r].user) >= 1

\* C9: a Snapshot row that a finished request left in the store has
\* totalItems equal to the number of SnapshotItems that reference it.
C9_TotalItemsMatchesItems ==
  \A r \in Runs :
    run[r].pc = "done" =>
      \A s \in snapshots :
        s.id = run[r].hist.snapshotId => s.totalItems = Cardinality(ItemsOf(s.id))

EmailsToday(u) == users[u].emailsSummarizedToday
EmailsTotal(u) == users[u].totalEmailsSummarized

C10_State ==
  \A r \in Runs :
    (run[r].pc = "done" /\ run[r].result.success) =>
      /\ run[r].snapshotItems >= 1
      /\ \E s \in snapshots :
           /\ s.id = run[r].hist.snapshotId
           /\ s.totalItems = run[r].snapshotItems
           /\ Cardinality(ItemsOf(s.id)) = run[r].snapshotItems

C10_Step ==
  \A r \in Runs :
    LET u == run[r].user
        n == Cardinality(ItemsOf(run[r].hist.snapshotId)) IN
    Stepped(r) =>
      CASE run[r].pc = "incEmailsToday" ->
             EmailsToday(u)' = EmailsToday(u) + n /\ EmailsTotal(u)' = EmailsTotal(u)
        [] run[r].pc = "incEmailsTotal" ->
             /\ EmailsTotal(u)' = EmailsTotal(u) + n
             /\ EmailsToday(u)' = EmailsToday(u)
             /\ run'[r].result.success
        [] OTHER ->
             /\ EmailsTotal(u)' = EmailsTotal(u)
             /\ EmailsToday(u)' <= EmailsToday(u)
             /\ ~run'[r].result.success

\* C10: on success the stored totalItems is the number of Items the request
\* created, at least 1, and the request has added exactly that number to
\* emailsSummarizedToday and to totalEmailsSummarized, in no other step.
C10_SuccessCounts == []C10_State /\ [][C10_Step]_vars

C10_Witness ==
  \E r \in Runs :
    /\ run[r].pc = "done" /\ run[r].result.success
    /\ run[r].snapshotItems < Len(run[r].newEmails)
    /\ EmailsTotal(run[r].user) = run[r].snapshotItems

\* ---------------------------------------------------- sender registry
SenderEmails == {SenderEmailOf(m) : m \in MsgIds}

\* getOrCreateSender calls that have returned, for the pair (u, e); every
\* message of the mailbox carries the one address of SenderEmails
CallsFor(u, e) ==
  (IF run[1].user = u THEN run[1].hist.calls ELSE 0)
    + (IF run[2].user = u THEN run[2].hist.calls ELSE 0)

OneRowCounting(u, e, n) ==
  /\ Cardinality(SenderRows(u, e)) = 1
  /\ \A s \in SenderRows(u, e) : s.totalEmails = n

\* C11: after n >= 1 getOrCreateSender calls for one (userId, email) pair,
\* made one after the other, exactly one Sender row exists for the pair and
\* its totalEmails is n.
C11_OneRowCountsCalls ==
  \A u \in Users, e \in SenderEmails :
    CallsFor(u, e) >= 1 => OneRowCounting(u, e, CallsFor(u, e))

C11_Witness ==
  \E u \in Users, e \in SenderEmails :
    CallsFor(u, e) >= 3 /\ OneRowCounting(u, e, CallsFor(u, e))

\* C12: getOrCreateSender calls of two overlapping requests for the same
\* (userId, email) pair leave what a sequential order leaves: at most one
\* Sender row for the pair, its totalEmails counting every call, and no
\* request ended by a unique-constraint error.
C12_ConcurrentResolveIsSerial ==
  /\ \A r \in Runs : run[r].pc = "done" => run[r].result.cause # UNIQUE_VIOLATION
  /\ \A u \in Users, e \in SenderEmails :
       /\ Cardinality(SenderRows(u, e)) <= 1
       /\ CallsFor(u, e) >= 1 => OneRowCounting(u, e, CallsFor(u, e))

\* ------------------------------------------------------------ daily reset
OnOtherDay(u) == toDateString(users[u].lastUsageResetDate) # toDateString(now)

\* C13: a quota check made when lastUsageResetDate lies on another calendar
\* day than today zeroes snapshotsCreatedToday and emailsSummarizedToday and
\* sets lastUsageResetDate to today before the limits are evaluated, which
\* are judged on the zeroed counters; a check on the day of
\* lastUsageResetDate changes none of the three fields.
C13_ResetOncePerDay ==
  [][\A r \in Runs :
       LET u == run[r].user IN
       /\ (run[r].pc \in {"checkA", "checkB"} /\ Stepped(r)) =>
            /\ UNCHANGED users
            /\ run'[r].pc \in {"resetA", "resetB"} <=> OnOtherDay(u)
       /\ (run[r].pc \in {"resetA", "resetB"} /\ Stepped(r)) =>
            /\ users'[u] = [users[u] EXCEPT !.snapshotsCreatedToday = 0,
                                             !.emailsSummarizedToday = 0,
                                             !.lastUsageResetDate = now]
            /\ run[r].pc = "resetA" =>
                 (run'[r].hist.quotaPassed <=> canCreateSnapshot(users'[u], now, now))
    ]_vars

\* a request on a new day whose first check zeroed a counter of 1, passed
\* the limits on it, and whose second check left the row alone
C13_Witness ==
  /\ run[1].pc = "fetch"
  /\ run[1].hist.quotaPassed
  /\ now = 73
  /\ users[run[1].user].lastUsageResetDate = now
  /\ users[run[1].user].emailsSummarizedToday = 0
  /\ users[run[1].user].totalEmailsSummarized = 1
  /\ users[run[1].user].snapshotsCreatedToday = 1

\* ------------------------------------------------------ snapshot permission
TrialLifetimeCap == getPlanLimits("trial").totalSnapshotsAllowed

\* the first checkUsageLimits of a request has evaluated the limits
Judged(r) ==
  /\ run[r].pc \in {"checkA", "resetA"}
  /\ Stepped(r)
  /\ run'[r].pc # "resetA"

\* C14: canCreateSnapshot is hasActiveAccess AND (tier is not trial OR
\* totalSnapshotsCreated < the trial lifetime cap) AND (the daily cap is
\* unlimited OR snapshotsCreatedToday < the daily cap), on the counters as
\* the daily reset leaves them.
C14_CanCreateSnapshot ==
  [][\A r \in Runs :
       LET row == users'[run[r].user]
           cap == getPlanLimits(row.tier).maxSnapshotsPerDay IN
       Judged(r) =>
         (run'[r].hist.quotaPassed <=>
            /\ hasActiveAccess(row, now, now)
            /\ (row.tier # "trial" \/ row.totalSnapshotsCreated < TrialLifetimeCap)
            /\ (cap = UNLIMITED \/ row.snapshotsCreatedToday < cap))
    ]_vars

\* a trial user with access and a free daily slot, refused for the lifetime cap
C14_Witness ==
  LET row == users[run[1].user] IN
  /\ run[1].pc = "done"
  /\ ~run[1].hist.quotaPassed
  /\ isTrialActive(row, now)
  /\ row.snapshotsCreatedToday = 0
  /\ row.totalSnapshotsCreated = TrialLifetimeCap

\* ------------------------------------------------------------------ C15
\* hasActiveAccess as a function of the tier, the two expiry columns and the
\* clock: a trial that has not expired, or a paid tier whose subscription has
\* not expired
AccessByTierAndExpiry(u, t) ==
  \/ (u.tier = "trial"
        /\ ~(u.tier = "trial" /\ u.trialExpiresAt # None /\ t >= u.trialExpiresAt))
  \/ (u.tier # "trial" /\ u.tier # "free"
        /\ ~(u.tier # "trial" /\ u.subscriptionExpiresAt # None
                /\ t >= u.subscriptionExpiresAt))

\* C15: for every user row and every time, the hasActiveAccess that
\* checkUsageLimits reports equals (tier = trial and the trial has not
\* expired) or (tier is neither trial nor free and the subscription has not
\* expired); a trial row whose trialExpiresAt is unset has access.
C15_HasActiveAccess ==
  [][\A r \in Runs :
       Judged(r) =>
         (run'[r].limits.hasActiveAccess
            <=> AccessByTierAndExpiry(users'[run[r].user], now))
    ]_vars

\* ------------------------------------------------------------------ C16
MSG_DAILY_LIMIT == "Daily snapshot limit reached. Upgrade your plan for more snapshots."

\* the stored row of u has used every daily slot of a paid or trial tier whose
\* daily cap is finite, and the slots were counted today
AtDailyCapToday(u) ==
  /\ users[u].tier # "free"
  /\ DailyCap(u) # UNLIMITED
  /\ users[u].snapshotsCreatedToday >= DailyCap(u)
  /\ ~OnOtherDay(u)

\* the request of r, when it starts with property P(u) of its user, writes
\* nothing and ends at its first quota check with the daily-limit message
RejectedAtDailyCap(r, pre) ==
  LET u == run[r].user IN
  /\ (run[r].pc \in {"idle", "done"} /\ Stepped(r) /\ pre) => UNCHANGED dbVars
  /\ (run[r].pc = "checkA" /\ Stepped(r) /\ pre) =>
       /\ run'[r].pc = "done"
       /\ ~run'[r].hist.quotaPassed
       /\ run'[r].result.cause = MSG_DAILY_LIMIT
       /\ UNCHANGED dbVars

MSG_NO_ACCESS == "No active subscription found."
MSG_SUBSCRIPTION_EXPIRED == "Subscription has expired. Please renew to continue."

Counters(row) == <<row.snapshotsCreatedToday, row.totalSnapshotsCreated,
                   row.emailsSummarizedToday, row.totalEmailsSummarized>>

\* a step of the request of r for a free-tier user
FreeRunStep(r) == Stepped(r) /\ users[run'[r].user].tier = "free"

\* a step of the request of r for a free-tier user stays at the quota check:
\* it never reaches the fetch, raises no counter, writes no Snapshot, Item or
\* Sender row, and when it ends it has failed
FreeRunStaysAtQuota(r) ==
  LET u == run'[r].user IN
  FreeRunStep(r) =>
    /\ run'[r].pc \in {"checkA", "resetA", "done"}
    /\ ~run'[r].hist.quotaPassed
    /\ UNCHANGED <<snapshots, items, senders>>
    /\ \A i \in 1..4 : Counters(users'[u])[i] <= Counters(users[u])[i]
    /\ run'[r].pc = "done" => run'[r].result.kind # "return"

FreeReason(row) ==
  IF isSubscriptionExpired(row, now) THEN MSG_SUBSCRIPTION_EXPIRED ELSE MSG_NO_ACCESS

MSG_TRIAL_EXPIRED == "Trial period has expired. Please upgrade to continue."

\* the quota check of r has just refused the request
Refused(r) == Judged(r) /\ ~run'[r].hist.quotaPassed

\* C18: the reason of a rejection is the first that applies in the order
\* trial expired, subscription expired, no active access, daily cap reached,
\* and the daily-cap reason is given only when snapshotsCreatedToday has
\* reached the daily cap of the tier.
C18_ReasonPriority ==
  [][\A r \in Runs :
       LET row == users'[run[r].user]
           lim == run'[r].limits
           why == run'[r].result.cause
           cap == getPlanLimits(row.tier).maxSnapshotsPerDay IN
       Refused(r) =>
         /\ lim.isTrialExpired => why = MSG_TRIAL_EXPIRED
         /\ (~lim.isTrialExpired /\ lim.isSubscriptionExpired)
              => why = MSG_SUBSCRIPTION_EXPIRED
         /\ (~lim.isTrialExpired /\ ~lim.isSubscriptionExpired
               /\ ~lim.hasActiveAccess) => why = MSG_NO_ACCESS
         /\ why = MSG_DAILY_LIMIT
              => (cap # UNLIMITED /\ row.snapshotsCreatedToday >= cap)
    ]_vars

\* ------------------------------------------------------------------ C19
QuotaMessages == {MSG_TRIAL_EXPIRED, MSG_SUBSCRIPTION_EXPIRED, MSG_NO_ACCESS,
                  MSG_DAILY_LIMIT}

\* C19: when the quota check of createSnapshot rejects, the caller receives
\* the quota error itself, a ForbiddenException whose message is the quota
\* message, and not the BadRequestException 'Failed to create snapshot:
\* <cause>' that wraps the unexpected errors of the later steps.
C19_QuotaErrorVerbatim ==
  \A r \in Runs :
    (run[r].pc = "done" /\ run[r].result.cause \in QuotaMessages) =>
      /\ run[r].result.kind = "ForbiddenException"
      /\ run[r].result.message = run[r].result.cause

\* ------------------------------------------------------------------ C20
\* C20: a mailbox fetch that failed in transport or authentication ends the
\* request with a failure other than the no-unread-emails result.
C20_FetchFailureNotEmptyMailbox ==
  \A r \in Runs :
    (run[r].pc = "done" /\ run[r].hist.fetchFailed) =>
      /\ run[r].result.kind # "return"
      /\ run[r].result # Returned(FALSE, MSG_NO_UNREAD)

\* ------------------------------------------------------------------ C21
AccessReasons == {MSG_TRIAL_EXPIRED, MSG_SUBSCRIPTION_EXPIRED, MSG_NO_ACCESS}

\* the last createSnapshot of u was rejected as trial expired, subscription
\* expired or no active access
LastRejectedForAccess(u) ==
  \E r \in Runs : /\ run[r].pc = "done"
                  /\ run[r].user = u
                  /\ run[r].result.cause \in AccessReasons

\* the step is an upgrade of u to a paid tier, or a trial start of u on the
\* free tier
RestoresAccess(u) ==
  \/ \E t \in {"starter", "pro"}, c \in BillingCycles : upgradeUserPlan(u, t, c)
  \/ users[u].tier = "free" /\ startFreeTrial(u)

\* C21: after a createSnapshot of a user has been rejected as trial expired,
\* subscription expired or no active access, the user stays without access,
\* so that every later createSnapshot is rejected too, through every step
\* that is neither an upgrade to a paid tier nor a trial start of a free
\* user; a repeated startTrial of a user whose trial expired restores nothing.
C21_RejectionPersists ==
  [][\A u \in Users :
       (/\ LastRejectedForAccess(u)
        /\ ~hasActiveAccess(users[u], now, now)
        /\ ~RestoresAccess(u))
         => ~hasActiveAccess(users'[u], now', now')
    ]_vars

\* ------------------------------------------------------------------ C22
\* an id that no Snapshot carries
NoSuchSnapshotId == 0

\* C22: getSnapshotWithItems(userId, snapshotId) returns a Snapshot and its
\* Items only when the Snapshot is owned by userId; for the Snapshot of
\* another user the outcome equals the not-found error of an id that does
\* not exist.
C22_OnlyOwnerReadsSnapshot ==
  \A caller \in Callers, s \in snapshots :
    LET res == getSnapshotWithItems(caller, s.id) IN
    /\ res.kind = "return" =>
         /\ res.snapshot = s
         /\ s.userId = caller
         /\ res.items = ItemsOf(s.id)
    /\ s.userId # caller =>
         res = getSnapshotWithItems(caller, NoSuchSnapshotId)

\* a Snapshot with an Item that its owner reads and the other account is
\* refused
C22_Witness ==
  \E s \in snapshots :
    /\ ItemsOf(s.id) # {}
    /\ getSnapshotWithItems(s.userId, s.id).kind = "return"
    /\ \E caller \in Callers :
         /\ caller # s.userId
         /\ getSnapshotWithItems(caller, s.id) = NOT_FOUND

\* ------------------------------------------------------------------ C23
\* C23: no field of a persisted SnapshotItem holds the body text of its
\* message, also when the provider supplies no snippet of its own.
C23_BodyNeverStored ==
  \A it \in items :
    /\ it.summary # BodyOf(it.messageId)
    /\ it.snippet # BodyOf(it.messageId)

\* ------------------------------------------------------------------ C24
\* the threshold table of the priority label, on scores in hundredths
ThresholdLabel(score) ==
  CASE score >= 85 -> "urgent"
    [] score >= 70 /\ score < 85 -> "high"
    [] score >= 40 /\ score < 70 -> "medium"
    [] score < 40 -> "low"

\* the messages a request holds after its fetch
FetchedBy(r) == {run[r].unreadEmails[k] : k \in 1..Len(run[r].unreadEmails)}

\* C24: for every combination of labels, header hints, sender domain and
\* size estimate the score lies within [0, 1], and the priority label stored
\* with a SnapshotItem is the threshold mapping of the score stored with it.
C24_ScoreBoundedLabelMatches ==
  /\ \A r \in Runs : \A m \in FetchedBy(r) :
       /\ GmailMessageDto(m).priorityScore >= 0
       /\ GmailMessageDto(m).priorityScore <= 100
  /\ \A it \in items :
       /\ it.priorityScore >= 0
       /\ it.priorityScore <= 100
       /\ it.priorityLabel = ThresholdLabel(it.priorityScore)

\* an Item stored with a score on a threshold, while the fetch scored the
\* message at the upper bound through its headers
C24_Witness ==
  \E it \in items :
    /\ it.priorityScore = 40
    /\ it.priorityLabel = "medium"
    /\ calculateEnhancedImportance(mail[it.messageId].labelIds,
                                    mail[it.messageId].headers,
                                    mail[it.messageId].senderEmail,
                                    mail[it.messageId].sizeEstimate) = 100

\* ------------------------------------------------------------------ C25
\* the score of message m when its labels are replaced by labelIds, with the
\* headers the caller passes
ScoreWith(m, labelIds, headers) ==
  calculateEnhancedImportance(labelIds, headers, mail[m].senderEmail,
                              mail[m].sizeEstimate)

\* C25: adding the marked-important label to a scoring input never decreases
\* the score; for an input with the promotions label the clamp to 0.3 comes
\* after the marked-important and starred rules, so the two labels change
\* nothing in its score and do not lift it above 0.3.
C25_ImportantMonotoneClampAfter ==
  \A r \in Runs : \A m \in FetchedBy(r) : \A h \in {NoHeaders, mail[m].headers} :
    LET l == mail[m].labelIds IN
    /\ ScoreWith(m, l \cup {"IMPORTANT"}, h) >= ScoreWith(m, l, h)
    /\ "CATEGORY_PROMOTIONS" \in l =>
         /\ ScoreWith(m, l, h) = ScoreWith(m, l \ {"IMPORTANT", "STARRED"}, h)
         /\ (h = NoHeaders /\ ~isTrustedDomain(mail[m].senderEmail)
               /\ mail[m].sizeEstimate <= LARGE_EMAIL_SIZE)
              => ScoreWith(m, l, h) <= 30

\* a message marked important and starred in the promotions category has
\* been stored with the score 0.3
C25_Witness ==
  \E it \in items :
    /\ {"IMPORTANT", "STARRED", "CATEGORY_PROMOTIONS"} \subseteq mail[it.messageId].labelIds
    /\ it.priorityScore = 30

\* ------------------------------------------------------------------ C26
LabelsOfItem(it) == mail[it.messageId].labelIds

RetentionReached(t) == {s \in snapshots : s.retentionExpiresAt <= t}

\* C27: the eligibility test of the sweeper is retentionExpiresAt <= now: the
\* Snapshots a sweep selects for deletion are those whose retentionExpiresAt
\* is at or before the now of the sweep, and no other.
C27_EligibleAtRetentionExpiry ==
  [][(sweep.pc = "findIds" /\ sweep' # sweep) =>
       IF sweep'.pc = "deleteItems"
       THEN sweep'.snapshotIds = {s.id : s \in RetentionReached(sweep.startedAt)}
       ELSE RetentionReached(sweep.startedAt) = {}
    ]_vars

\* ------------------------------------------------------------------ C28
\* the trial of u has used every snapshot slot of the trial lifetime cap
TrialCapUsedUp(u) ==
  users[u].tier = "trial" /\ users[u].totalSnapshotsCreated >= TrialLifetimeCap

\* C28: once a user on the trial tier has used up the trial lifetime cap, no
\* operation gives the trial a further snapshot slot: while the user stays
\* on the trial tier the slots consumed stay at the cap, so the slots
\* consumed on the trial tier never exceed it.
C28_TrialCapNeverRenewed ==
  [][\A u \in Users :
       (TrialCapUsedUp(u) /\ users'[u].tier = "trial")
         => users'[u].totalSnapshotsCreated >= TrialLifetimeCap
    ]_vars

\* ------------------------------------------------------------------ C29
\* the user who owns the Snapshot of an Item
OwnerOfItem(it) == SnapshotOf(it.snapshotId).userId

\* C29: no two SnapshotItems of the same user carry the same provider
\* message id, also when two createSnapshot runs of the user interleave
\* between reading the existing ids and persisting their Items.
C29_MessageIdUniquePerUser ==
  \A a \in items, b \in items :
    (a.messageId = b.messageId /\ OwnerOfItem(a) = OwnerOfItem(b)) => a = b

\* ------------------------------------------------------------------ C30
\* C30: when two quota operations of a user interleave on the first quota
\* check of a new calendar day, the daily counters are zeroed once, before
\* any consumption of the day is recorded: the reset of one operation never
\* erases a snapshot slot or an email count that the other has already
\* recorded for the day.
C30_ResetErasesNothingOfToday ==
  [][\A r \in Runs :
       LET u == run[r].user IN
       (run[r].pc \in {"resetA", "resetB"} /\ Stepped(r) /\ ~OnOtherDay(u)) =>
         /\ users'[u].snapshotsCreatedToday = users[u].snapshotsCreatedToday
         /\ users'[u].emailsSummarizedToday = users[u].emailsSummarizedToday
    ]_vars

\* ------------------------------------------------------------------ C32
\* C32: in every state of a user record, the states between the two
\* increments of one consumption included, the daily counters are not
\* negative and do not exceed the lifetime counters.
C32_DailyWithinLifetime ==
  \A u \in Users :
    /\ 0 <= users[u].snapshotsCreatedToday
    /\ users[u].snapshotsCreatedToday <= users[u].totalSnapshotsCreated
    /\ 0 <= users[u].emailsSummarizedToday
    /\ users[u].emailsSummarizedToday <= users[u].totalEmailsSummarized

\* ------------------------------------------------------------------ C33
\* C33: a Snapshot row stays in the store only for a createSnapshot that
\* created at least one Item: a request that has ended with success=false or
\* with an error has left no Snapshot row of its own behind.
C33_NoSnapshotOfFailedRun ==
  \A r \in Runs :
    (run[r].pc = "done" /\ ~run[r].result.success) =>
      \A s \in snapshots : s.id # run[r].hist.snapshotId

\* ------------------------------------------------------------------ C34
\* the Items that reference the Sender row s
ItemsOfSender(s) == {it \in items : it.senderId = s.id}

\* C34: a Sender is counted only for messages that became Items: when no
\* request is in flight, the count of every Sender equals the number of
\* Items created for it, so a message skipped for a failed or empty
\* summarization has not been counted.
C34_SenderCountsItemsOnly ==
  Quiet => \A s \in senders : s.totalEmails = Cardinality(ItemsOfSender(s))

\* ------------------------------------------------------------------ C35
\* the score of section 4.2 for message m: labels, header hints, sender
\* email and size estimate
ScoreOfMessage(m) ==
  calculateEnhancedImportance(mail[m].labelIds, mail[m].headers,
                              mail[m].senderEmail, mail[m].sizeEstimate)

NoCategoryClamp(m) ==
  /\ "CATEGORY_PROMOTIONS" \notin mail[m].labelIds
  /\ "CATEGORY_UPDATES" \notin mail[m].labelIds

\* C35: the score and label stored with a SnapshotItem are those of the
\* scoring function applied to the labels, header hints, sender email and
\* size estimate of its message: without a promotions or updates label, a
\* high importance or urgent priority header gives a stored score of at
\* least 0.8, and an X-Priority of 1 or 2 one of at least 0.9.
C35_StoredScoreUsesHeaders ==
  \A it \in items :
    LET m == it.messageId IN
    /\ it.priorityScore = ScoreOfMessage(m)
    /\ it.priorityLabel = scoreToPriorityLabel(ScoreOfMessage(m))
    /\ (NoCategoryClamp(m) /\ mail[m].headers.importanceHigh) => it.priorityScore >= 80
    /\ (NoCategoryClamp(m) /\ mail[m].headers.xPriorityHigh) => it.priorityScore >= 90

\* ------------------------------------------------------------------ C36
\* min(the max-emails-per-snapshot of the tier of u, the global ceiling)
FetchBound(u) ==
  Min(getPlanLimits(users[u].tier).maxEmailsPerSnapshot, MAX_EMAILS_FOR_SUMMARY)

\* C36: every createSnapshot asks the mailbox for min(the tier's
\* max-emails-per-snapshot, the global ceiling) messages, for the tier the
\* user has during the request, and receives no more; no Snapshot holds more
\* Items than that bound.
C36_FetchCountIsTierMinCeiling ==
  [][/\ \A r \in Runs :
          (run[r].pc = "fetch" /\ Stepped(r)) =>
            /\ run'[r].hist.requested = FetchBound(run[r].user)
            /\ Len(run'[r].hist.unread) <= FetchBound(run[r].user)
     /\ \A s \in snapshots' :
          Cardinality({it \in items' : it.snapshotId = s.id}) <= FetchBound(s.userId)'
    ]_vars

\* a pro user, whose tier allows more than the ceiling, has been given a
\* Snapshot with as many Items as the ceiling
C36_Witness ==
  \E r \in Runs :
    /\ run[r].pc = "done"
    /\ run[r].result.success
    /\ users[run[r].user].tier = "pro"
    /\ getPlanLimits("pro").maxEmailsPerSnapshot > MAX_EMAILS_FOR_SUMMARY
    /\ run[r].hist.requested = MAX_EMAILS_FOR_SUMMARY
    /\ Cardinality(ItemsOf(run[r].hist.snapshotId)) = MAX_EMAILS_FOR_SUMMARY

\* ------------------------------------------------------------------ C31
UsageCounters == {"snapshotsCreatedToday", "totalSnapshotsCreated",
                  "emailsSummarizedToday", "totalEmailsSummarized"}

\* the write statement of the save of an upgrade request is taken
UpgradeWrites ==
  plan.op = "upgrade" /\ plan.pc = "saveUpdate" /\ plan'.pc = "done"

\* C31: the write of upgradeUserPlan changes no usage counter of the row: a
\* counter that a createSnapshot of the same user incremented after the
\* upgrade read the row is not overwritten with the value read earlier.
C31_UpgradeKeepsCounters ==
  [][UpgradeWrites =>
       \A c \in UsageCounters : users'[plan.userId][c] = users[plan.userId][c]
    ]_vars

\* ------------------------------------------------------------------ C37
\* the write statement of the save of a start-trial request is taken
StartTrialWrites ==
  plan.op = "startTrial" /\ plan.pc = "saveUpdate" /\ plan'.pc = "done"

\* C37: startTrial moves a user from tier free to tier trial and changes the
\* tier of no other user: a user on starter or pro is not moved to trial.
C37_StartTrialOnlyFromFree ==
  [][StartTrialWrites =>
       /\ users'[plan.userId].tier # users[plan.userId].tier
            => (users[plan.userId].tier = "free" /\ users'[plan.userId].tier = "trial")
       /\ users[plan.userId].tier \in {"starter", "pro"}
            => users'[plan.userId].tier = users[plan.userId].tier
    ]_vars

\* ------------------------------------------------------------------ C38
\* C38: the write of a startTrial on a free-tier user leaves tier = trial,
\* trialStartedAt = the time of the request, trialExpiresAt = trialStartedAt
\* + 7 days and the four usage counters at 0; the user then has active
\* access and canCreateSnapshot holds.
C38_TrialStartPostState ==
  [][(StartTrialWrites /\ users[plan.userId].tier = "free") =>
       LET row == users'[plan.userId] IN
       /\ row.tier = "trial"
       /\ row.trialStartedAt = now
       /\ row.trialExpiresAt = row.trialStartedAt + TRIAL_HOURS
       /\ \A c \in UsageCounters : row[c] = 0
       /\ hasActiveAccess(row, now, now)
       /\ canCreateSnapshot(row, now, now)
    ]_vars

\* a free-tier user who was refused a snapshot has started a trial and has
\* then passed the quota check of a further createSnapshot
C38_Witness ==
  /\ plan.op = "startTrial"
  /\ plan.pc = "done"
  /\ run[1].hist.quotaPassed
  /\ run[1].hist.prev = NoPrev
  /\ users[plan.userId].tier = "trial"
  /\ users[plan.userId].trialExpiresAt = now + TRIAL_HOURS
  /\ starts = MaxStarts

\* ------------------------------------------------------------------ C39
\* the request of upgrade(userId, tier, cycle) has been answered
UpgradeAnswered ==
  plan.op = "upgrade" /\ plan.pc # "done" /\ plan'.pc = "done"

\* C39: when upgrade(userId, tier, cycle) has been answered, the tier of the
\* user is starter or pro, subscriptionStartedAt is the time of the request
\* and subscriptionExpiresAt one month later for the monthly cycle, one year
\* later for the yearly cycle, and the user has active access; no upgrade
\* request leaves the user on tier free or trial.
C39_UpgradePostState ==
  [][UpgradeAnswered =>
       LET row == users'[plan.userId] IN
       /\ row.tier \in {"starter", "pro"}
       /\ row.subscriptionStartedAt = now
       /\ row.subscriptionExpiresAt = now + CycleHours(plan.billingCycle)
       /\ hasActiveAccess(row, now, now)
    ]_vars

\* ------------------------------------------------------------------ C40
\* the columns of the trial and of the subscription dates
PlanDates == {"trialStartedAt", "trialExpiresAt",
              "subscriptionStartedAt", "subscriptionExpiresAt"}

\* no Snapshot, SnapshotItem or Sender row of user u is stored
NoDataOf(u) ==
  /\ \A s \in snapshots : s.userId # u
  /\ \A it \in items : it.snapshotId \notin SnapshotIdsOf(u)
  /\ \A s \in senders : s.userId # u

\* C40: once deleteCurrentUser has completed, the User row is kept as a fresh
\* free row, with tier free, the four usage counters 0 and the trial and
\* subscription dates cleared, and no Snapshot, SnapshotItem or Sender row of
\* the user exists, also when a createSnapshot of the user was in progress.
C40_DeactivationLeavesFreshFree ==
  deactivation.pc = "done" =>
    LET u == deactivation.userId IN
    /\ users[u].tier = "free"
    /\ \A c \in UsageCounters : users[u][c] = 0
    /\ \A c \in PlanDates : users[u][c] = None
    /\ NoDataOf(u)
====
